---- MODULE Spec2Model ----
(***************************************************************************)
(* Model of src/src/data_transformer.py: DataTransformer.transform,        *)
(* its two cleaning helpers, _format_currency and                          *)
(* validate_transformed_data.                                              *)
(*                                                                         *)
(* Representation.                                                         *)
(*  - A cell is a record [kind, s, v]: kind "nan" is the pandas missing    *)
(*    value, kind "str" carries a text s (a sequence of one-character      *)
(*    strings), kind "float" carries a number v counted in thousandths.    *)
(*    Only numbers whose thousandths are exact in binary floating point    *)
(*    at the rounding boundary (0.125, 0.375, ...) are used as ties, so    *)
(*    that fixed point and the float arithmetic of the code agree.         *)
(*  - A source frame is [columns, rows]; its index is the default          *)
(*    RangeIndex, so the label of row i (1-based here) is i - 1.           *)
(*  - A result frame is a sequence of [index, data]: index is the pandas   *)
(*    row label, data maps each of the sixteen columns to its value.       *)
(***************************************************************************)
EXTENDS Integers, Sequences, FiniteSets, TLC

VARIABLES pc, df, column_mapping, result_df, target_df, validation, value, formatted

vars == <<pc, df, column_mapping, result_df, target_df, validation, value, formatted>>

(***************************************************************************)
(* Bounds of the explored inputs.                                          *)
(***************************************************************************)
MaxRows == 2
MaxMap == 3

(***************************************************************************)
(* Cells.                                                                  *)
(***************************************************************************)
NaN == [kind |-> "nan", s |-> <<>>, v |-> 0]
Str(s) == [kind |-> "str", s |-> s, v |-> 0]
Float(v) == [kind |-> "float", s |-> <<>>, v |-> v]

isna(c) == c.kind = "nan"

odoo_columns ==
    << "Internal Reference", "Name", "Can be Sold", "Can be Purchased",
       "Product Type", "Category", "Sale Price", "Cost", "Quantity On Hand",
       "Weight", "Volume", "Barcode", "Description for Quotations",
       "Description for Receipts", "Customer Taxes", "Vendor Taxes" >>

OdooColumnSet == {odoo_columns[i] : i \in DOMAIN odoo_columns}

(***************************************************************************)
(* Text: str.strip, astype(str), Series.replace.                           *)
(***************************************************************************)
IsSpace(ch) == ch \in {" ", "\t"}

RECURSIVE lstrip(_)
lstrip(s) == IF s # <<>> /\ IsSpace(Head(s)) THEN lstrip(Tail(s)) ELSE s

RECURSIVE rstrip(_)
rstrip(s) ==
    IF s # <<>> /\ IsSpace(s[Len(s)]) THEN rstrip(SubSeq(s, 1, Len(s) - 1)) ELSE s

strip(s) == rstrip(lstrip(s))

DigitChars == <<"0", "1", "2", "3", "4", "5", "6", "7", "8", "9">>

RECURSIVE Digits(_)
Digits(n) == IF n < 10 THEN <<DigitChars[n + 1]>>
             ELSE Digits(n \div 10) \o <<DigitChars[(n % 10) + 1]>>

Abs(v) == IF v < 0 THEN 0 - v ELSE v

\* The fractional digits of str(float): trailing zeros dropped, one kept.
FracDigits(f) ==
    IF f % 100 = 0 THEN <<DigitChars[(f \div 100) + 1]>>
    ELSE IF f % 10 = 0
         THEN <<DigitChars[(f \div 100) + 1], DigitChars[((f \div 10) % 10) + 1]>>
         ELSE <<DigitChars[(f \div 100) + 1], DigitChars[((f \div 10) % 10) + 1],
                DigitChars[(f % 10) + 1]>>

\* str(x) of a float x given in thousandths: "-5.0", "0.125", "19.999".
FloatStr(v) ==
    (IF v < 0 THEN <<"-">> ELSE <<>>)
        \o Digits(Abs(v) \div 1000) \o <<".">> \o FracDigits(Abs(v) % 1000)

nan_text == <<"n", "a", "n">>

\* astype(str) on one cell: the missing value becomes the text "nan".
astype_str(c) ==
    CASE c.kind = "nan" -> nan_text
      [] c.kind = "str" -> c.s
      [] c.kind = "float" -> FloatStr(c.v)

\* Variant of replace that leaves every value as it is.
replace_nothing(s, a, b) == s

\* Series.replace(a, b) replaces a value that equals a as a whole.
replace(s, a, b) == IF s = a THEN b ELSE s

clean_text_cell(c) == Str(replace(strip(astype_str(c)), nan_text, <<>>))

_clean_text_data(series) == [i \in DOMAIN series |-> clean_text_cell(series[i])]

(***************************************************************************)
(* Numbers: pd.to_numeric(errors='coerce'), Series.round, Decimal.quantize.*)
(***************************************************************************)
DigitSet == {DigitChars[i] : i \in DOMAIN DigitChars}

DigitVal(ch) == CHOOSE d \in 0..9 : DigitChars[d + 1] = ch

AllDigits(s) == \A i \in DOMAIN s : s[i] \in DigitSet

RECURSIVE NatVal(_)
NatVal(s) == IF s = <<>> THEN 0
             ELSE NatVal(SubSeq(s, 1, Len(s) - 1)) * 10 + DigitVal(s[Len(s)])

\* Thousandths denoted by up to three fractional digits: "5" is 500.
FracVal(s) ==
    CASE Len(s) = 0 -> 0
      [] Len(s) = 1 -> NatVal(s) * 100
      [] Len(s) = 2 -> NatVal(s) * 10
      [] Len(s) = 3 -> NatVal(s)

\* An unsigned decimal literal: digits, optionally one "." and digits.
ParseUnsigned(s) ==
    LET dots == {i \in DOMAIN s : s[i] = "."}
    IN  IF dots = {}
        THEN IF s # <<>> /\ AllDigits(s) THEN Float(NatVal(s) * 1000) ELSE NaN
        ELSE IF Cardinality(dots) = 1
             THEN LET p == CHOOSE i \in dots : TRUE
                      ip == SubSeq(s, 1, p - 1)
                      fp == SubSeq(s, p + 1, Len(s))
                  IN  IF AllDigits(ip) /\ AllDigits(fp) /\ Len(ip) + Len(fp) > 0
                      THEN Float(NatVal(ip) * 1000 + FracVal(fp))
                      ELSE NaN
             ELSE NaN

\* float(text) with a failure coerced to NaN; the text "nan" parses to NaN.
ParseFloat(s) ==
    LET t == strip(s)
    IN  IF t # <<>> /\ Head(t) = "-"
        THEN LET u == ParseUnsigned(Tail(t))
             IN  IF isna(u) THEN NaN ELSE Float(0 - u.v)
        ELSE IF t # <<>> /\ Head(t) = "+" THEN ParseUnsigned(Tail(t))
        ELSE ParseUnsigned(t)

\* Variant of to_numeric_cell that turns a text that is no number into 0.0.
to_numeric_cell_zero(c) ==
    CASE c.kind = "nan" -> NaN
      [] c.kind = "float" -> c
      [] c.kind = "str" -> IF isna(ParseFloat(c.s)) THEN Float(0) ELSE ParseFloat(c.s)

to_numeric_cell(c) ==
    CASE c.kind = "nan" -> NaN
      [] c.kind = "float" -> c
      [] c.kind = "str" -> ParseFloat(c.s)

\* numpy rounding to 2 places: rint(x * 100) / 100, a tie goes to the even
\* neighbour.  v and the result are in thousandths.
round_half_even(v) ==
    LET q == v \div 10
        r == v % 10
    IN  IF r < 5 THEN q * 10
        ELSE IF r > 5 THEN (q + 1) * 10
        ELSE IF q % 2 = 0 THEN q * 10 ELSE (q + 1) * 10

round_cell(c) == IF isna(c) THEN NaN ELSE Float(round_half_even(c.v))

_clean_float_data(series) ==
    [i \in DOMAIN series |-> round_cell(to_numeric_cell(series[i]))]

\* Decimal.quantize(Decimal('0.00'), rounding=ROUND_HALF_UP): a tie goes
\* away from zero.
ROUND_HALF_UP(v) ==
    IF v < 0 THEN 0 - (((0 - v) + 5) \div 10) * 10 ELSE ((v + 5) \div 10) * 10

\* Decimal(str(value)): a text that is no decimal literal raises, which the
\* bare except turns into 0.0; the text "nan" is the Decimal NaN, which
\* quantize and float() pass through.
_format_currency(val) ==
    IF isna(val) THEN Float(0)
    ELSE LET t == strip(astype_str(val))
             d == ParseFloat(t)
         IN  IF t = nan_text THEN NaN
             ELSE IF isna(d) THEN Float(0)
             ELSE Float(ROUND_HALF_UP(d.v))

(***************************************************************************)
(* Frames.                                                                 *)
(***************************************************************************)
TextColumns == {"Internal Reference", "Name"}

NumericColumns == {"Sale Price", "Cost", "Quantity On Hand"}

OptionalTextColumns ==
    {"Weight", "Volume", "Barcode", "Description for Quotations",
     "Description for Receipts", "Customer Taxes", "Vendor Taxes"}

\* df.iloc[:, k]: position k from the left, or from the right when k < 0.
iloc(d, k) ==
    LET pos == IF k < 0 THEN d.columns + k ELSE k
    IN  [i \in 1..Len(d.rows) |-> d.rows[i][pos + 1]]

\* df.iloc[:, k] raises IndexError when k is left of the first column.
iloc_raises(d, k) == k < 0 - d.columns

\* Variant of SetColumn that writes each value one row further down.
SetColumn_shifted(frame, col, series) ==
    [i \in DOMAIN frame |->
        [frame[i] EXCEPT !.data[col] = series[((frame[i].index + 1) % Len(series)) + 1]]]

\* result_df[col] = series, aligned on the row label.
SetColumn(frame, col, series) ==
    [i \in DOMAIN frame |->
        [frame[i] EXCEPT !.data[col] = series[frame[i].index + 1]]]

\* result_df[col] = scalar
SetScalar(frame, col, x) ==
    [i \in DOMAIN frame |-> [frame[i] EXCEPT !.data[col] = x]]

\* pd.DataFrame(index=range(num_rows), columns=self.odoo_columns)
Allocate(num_rows) ==
    [i \in 1..num_rows |-> [index |-> i - 1, data |-> [c \in OdooColumnSet |-> NaN]]]

SetDefaults(frame) ==
    SetScalar(SetScalar(SetScalar(SetScalar(frame,
        "Can be Sold", TRUE),
        "Can be Purchased", TRUE),
        "Product Type", Str(<<"G", "o", "o", "d", "s">>)),
        "Category", Str(<<"A", "l", "l">>))

\* The body of the mapping loop for one (source_col_idx, odoo_field) item.
MapOne(frame, d, source_col_idx, odoo_field) ==
    IF source_col_idx < d.columns
    THEN LET source_data == iloc(d, source_col_idx)
         IN  CASE odoo_field = "internal_reference" ->
                    SetColumn(frame, "Internal Reference", _clean_text_data(source_data))
               [] odoo_field = "name" ->
                    SetColumn(frame, "Name", _clean_text_data(source_data))
               [] odoo_field = "list_price" ->
                    SetColumn(frame, "Sale Price", _clean_float_data(source_data))
               [] odoo_field = "standard_price" ->
                    SetColumn(frame, "Cost", _clean_float_data(source_data))
               [] odoo_field = "qty_available" ->
                    SetColumn(frame, "Quantity On Hand", _clean_float_data(source_data))
               [] OTHER -> frame
    ELSE frame

\* for source_col_idx, odoo_field in column_mapping.items(), in dict order.
RECURSIVE ApplyMapping(_, _, _)
ApplyMapping(frame, d, m) ==
    IF m = <<>> THEN frame
    ELSE ApplyMapping(MapOne(frame, d, Head(m).source_col_idx, Head(m).odoo_field),
                      d, Tail(m))

\* result_df.dropna(subset=['Internal Reference', 'Name'])
KeepRow(r) == ~isna(r.data["Internal Reference"]) /\ ~isna(r.data["Name"])

\* Variant of dropna with subset=['Internal Reference'].
KeepRow_reference_only(r) == ~isna(r.data["Internal Reference"])

dropna_reference_only(frame) == SelectSeq(frame, KeepRow_reference_only)

dropna(frame) == SelectSeq(frame, KeepRow)

\* Variant of fillna that fills nothing.
fillna_nothing(frame, cols, x) == frame

\* result_df[col] = result_df[col].fillna(x) for every col of cols
fillna(frame, cols, x) ==
    [i \in DOMAIN frame |->
        [frame[i] EXCEPT !.data =
            [c \in OdooColumnSet |->
                IF c \in cols /\ isna(frame[i].data[c]) THEN x ELSE frame[i].data[c]]]]

\* The frame before the required-field filter.
Mapped(d, m) == ApplyMapping(SetDefaults(Allocate(Len(d.rows))), d, m)

transform(d, m) ==
    fillna(fillna(dropna(Mapped(d, m)), NumericColumns, Float(0)),
           OptionalTextColumns, Str(<<>>))

\* transform raises when the loop reaches an item whose index iloc rejects.
transform_raises(d, m) ==
    \E i \in DOMAIN m :
        /\ m[i].source_col_idx < d.columns
        /\ iloc_raises(d, m[i].source_col_idx)

(***************************************************************************)
(* validate_transformed_data                                               *)
(***************************************************************************)
Column(frame, col) == [i \in DOMAIN frame |-> frame[i].data[col]]

any(series) == \E i \in DOMAIN series : series[i]

\* Variant of duplicated with keep=False: every occurrence is flagged.
duplicated_keep_false(series) ==
    [i \in DOMAIN series |-> \E j \in DOMAIN series : j # i /\ series[j] = series[i]]

\* Series.duplicated(): TRUE at every occurrence after the first; missing
\* values count as equal to each other.
duplicated(series) ==
    [i \in DOMAIN series |-> \E j \in 1..(i - 1) : series[j] = series[i]]

\* df[duplicates]['Internal Reference'].tolist()
RECURSIVE Masked(_, _)
Masked(series, mask) ==
    IF series = <<>> THEN <<>>
    ELSE (IF Head(mask) THEN <<Head(series)>> ELSE <<>>)
            \o Masked(Tail(series), Tail(mask))

Warning(message, field, refs) == [message |-> message, field |-> field, refs |-> refs]

numeric_fields == <<"Sale Price", "Cost", "Quantity On Hand">>

RECURSIVE NumericWarnings(_, _)
NumericWarnings(frame, fields) ==
    IF fields = <<>> THEN <<>>
    ELSE LET field == Head(fields)
             col == Column(frame, field)
         IN  (IF any([i \in DOMAIN col |-> isna(col[i])])
              THEN <<Warning("empty", field, <<>>)>> ELSE <<>>)
             \o (IF any([i \in DOMAIN col |-> col[i].kind = "float" /\ col[i].v < 0])
                 THEN <<Warning("negative", field, <<>>)>> ELSE <<>>)
             \o NumericWarnings(frame, Tail(fields))

validate_errors(frame) ==
    LET ref == Column(frame, "Internal Reference")
        name == Column(frame, "Name")
    IN  (IF any([i \in DOMAIN ref |-> isna(ref[i])])
         THEN <<"Some products are missing Internal Reference">> ELSE <<>>)
        \o (IF any([i \in DOMAIN name |-> isna(name[i])])
            THEN <<"Some products are missing Name">> ELSE <<>>)

validate_warnings(frame) ==
    LET ref == Column(frame, "Internal Reference")
        duplicates == duplicated(ref)
    IN  (IF any(duplicates)
         THEN <<Warning("duplicate", "Internal Reference", Masked(ref, duplicates))>>
         ELSE <<>>)
        \o NumericWarnings(frame, numeric_fields)

\* Variant of validate_transformed_data in which a warning blocks validity.
validate_transformed_data_strict(frame) ==
    [errors |-> validate_errors(frame),
     warnings |-> validate_warnings(frame),
     valid |-> Len(validate_errors(frame)) = 0 /\ Len(validate_warnings(frame)) = 0]

validate_transformed_data(frame) ==
    LET errors == validate_errors(frame)
    IN  [errors |-> errors,
         warnings |-> validate_warnings(frame),
         valid |-> Len(errors) = 0]

(***************************************************************************)
(* Inputs of the explored calls.                                           *)
(***************************************************************************)
\* Source rows of three cells: plain, padded, blank and missing texts, the
\* text "nan", numbers as text and as floats, a tie at the third decimal.
Row1 == << Str(<<"A", "1">>), Str(<<"W">>), Str(<<"1", "9", ".", "9", "9", "9">>) >>
Row2 == << Str(<<" ", "A", "1", " ">>), Str(<<" ", " ">>), Float(-125) >>
Row3 == << NaN, Str(<<" ", "n", "a", "n", " ">>), Str(<<"x">>) >>
Row4 == << Float(375), Str(<<" ", "W">>), NaN >>

SourceRows == {Row1, Row2, Row3, Row4}

NumColumns == Len(Row1)

RECURSIVE SeqsUpTo(_, _)
SeqsUpTo(S, n) ==
    IF n = 0 THEN {<<>>}
    ELSE LET shorter == SeqsUpTo(S, n - 1)
         IN  shorter \cup {Append(q, x) : q \in {t \in shorter : Len(t) = n - 1}, x \in S}

SourceFrames == {[columns |-> NumColumns, rows |-> r] : r \in SeqsUpTo(SourceRows, MaxRows)}

Item(k, f) == [source_col_idx |-> k, odoo_field |-> f]

\* Items a mapping may hold: the three columns under their fields, the last
\* column addressed from the right, an index past the last column, an index
\* left of the first column, a second column for Name, an unknown field.
MappingItems ==
    { Item(0, "internal_reference"), Item(1, "name"),
      Item(2, "list_price"), Item(2, "qty_available"), Item(-1, "standard_price"),
      Item(3, "name"), Item(-4, "internal_reference"),
      Item(0, "name"), Item(1, "weight") }

\* A dict has one item per key; its iteration order is its insertion order.
DistinctKeys(m) ==
    \A i, j \in DOMAIN m : i # j => m[i].source_col_idx # m[j].source_col_idx

Mappings == {m \in SeqsUpTo(MappingItems, MaxMap) : DistinctKeys(m)}

TargetRow(ref, name, sale_price, cost, qty) ==
    [c \in OdooColumnSet |->
        CASE c = "Internal Reference" -> ref
          [] c = "Name" -> name
          [] c \in {"Can be Sold", "Can be Purchased"} -> TRUE
          [] c = "Product Type" -> Str(<<"G", "o", "o", "d", "s">>)
          [] c = "Category" -> Str(<<"A", "l", "l">>)
          [] c = "Sale Price" -> sale_price
          [] c = "Cost" -> cost
          [] c = "Quantity On Hand" -> qty
          [] OTHER -> Str(<<>>)]

\* Rows of a table handed to the validator by a caller.
TargetRows ==
    { TargetRow(Str(<<"D", "1">>), Str(<<"W">>), Float(0), Float(0), Float(0)),
      TargetRow(Str(<<"D", "1">>), Str(<<"W">>), Float(0), Float(0), Float(-5000)),
      TargetRow(Str(<<"X">>), Str(<<"W">>), NaN, Float(0), Float(0)),
      TargetRow(NaN, Str(<<"W">>), Float(1990), Float(-10), Float(0)),
      TargetRow(Str(<<"X">>), NaN, Float(0), NaN, NaN),
      TargetRow(Str(<<>>), Str(<<"W">>), Float(0), Float(0), Float(0)) }

MaxTargetRows == 4

Indexed(rows) == [i \in DOMAIN rows |-> [index |-> i - 1, data |-> rows[i]]]

TargetFrames == {Indexed(r) : r \in SeqsUpTo(TargetRows, MaxTargetRows)}

Scalars == {Row1[3], Row2[3], Row3[1], Row3[2], Row3[3], Row4[1], Float(125)}

(***************************************************************************)
(* The state machine: one call of transform, optionally followed by the    *)
(* validation of its result; one validation of a table a caller supplies;  *)
(* one call of the scalar formatter.                                       *)
(***************************************************************************)
NoFrame == <<>>

NoValidation == [errors |-> <<>>, warnings |-> <<>>, valid |-> FALSE]

Init ==
    /\ pc = "idle"
    /\ df = [columns |-> 0, rows |-> <<>>]
    /\ column_mapping = <<>>
    /\ result_df = NoFrame
    /\ target_df = NoFrame
    /\ validation = NoValidation
    /\ value = NaN
    /\ formatted = NaN

Transform(d, m) ==
    /\ pc = "idle"
    /\ df' = d
    /\ column_mapping' = m
    /\ IF transform_raises(d, m)
       THEN /\ pc' = "raised"
            /\ result_df' = NoFrame
       ELSE /\ pc' = "transformed"
            /\ result_df' = transform(d, m)
    /\ UNCHANGED <<target_df, validation, value, formatted>>

Validate ==
    /\ pc = "transformed"
    /\ target_df' = result_df
    /\ validation' = validate_transformed_data(result_df)
    /\ pc' = "validated"
    /\ UNCHANGED <<df, column_mapping, result_df, value, formatted>>

ValidateTable(t) ==
    /\ pc = "idle"
    /\ target_df' = t
    /\ validation' = validate_transformed_data(t)
    /\ pc' = "checked"
    /\ UNCHANGED <<df, column_mapping, result_df, value, formatted>>

FormatCurrency(x) ==
    /\ pc = "idle"
    /\ value' = x
    /\ formatted' = _format_currency(x)
    /\ pc' = "formatted"
    /\ UNCHANGED <<df, column_mapping, result_df, target_df, validation>>

\* A call is made on an idle transformer; the guard stands before the choice
\* of the arguments.
Next ==
    \/ pc = "idle" /\ \E d \in SourceFrames, m \in Mappings : Transform(d, m)
    \/ Validate
    \/ pc = "idle" /\ \E t \in TargetFrames : ValidateTable(t)
    \/ pc = "idle" /\ \E x \in Scalars : FormatCurrency(x)

Spec == Init /\ [][Next]_vars

(***************************************************************************)
(* Vocabulary of the properties.                                           *)
(***************************************************************************)
\* result_df holds the table transform returned.
Returned == pc \in {"transformed", "validated"}

\* validation holds the result of a validation of target_df.
Validated == pc \in {"validated", "checked"}

FieldKey(col) ==
    CASE col = "Internal Reference" -> "internal_reference"
      [] col = "Name" -> "name"
      [] col = "Sale Price" -> "list_price"
      [] col = "Cost" -> "standard_price"
      [] col = "Quantity On Hand" -> "qty_available"

\* The items of the mapping that write column col of the result.
Applied(col) ==
    {i \in DOMAIN column_mapping :
        /\ column_mapping[i].source_col_idx < df.columns
        /\ column_mapping[i].odoo_field = FieldKey(col)}

IsMapped(col) == Applied(col) # {}

\* The last such item wins.
LastApplied(col) == CHOOSE i \in Applied(col) : \A j \in Applied(col) : j <= i

\* The source cell that column col of result row r was written from.
SourceCell(r, col) ==
    LET k == column_mapping[LastApplied(col)].source_col_idx
        pos == IF k < 0 THEN df.columns + k ELSE k
    IN  df.rows[r.index + 1][pos + 1]

NonEmptyText(c) == c.kind = "str" /\ c.s # <<>>

Blank(c) == c.kind = "nan" \/ (c.kind = "str" /\ \A i \in DOMAIN c.s : IsSpace(c.s[i]))

(***************************************************************************)
(* C1: every row of the table returned by transform has a non-empty        *)
(* Internal Reference and a non-empty Name; a row whose mapped source cell *)
(* was missing, blank or whitespace-only is never emitted.                 *)
(***************************************************************************)
C1_RequiredFieldsNonEmpty ==
    Returned =>
        \A i \in DOMAIN result_df :
            /\ NonEmptyText(result_df[i].data["Internal Reference"])
            /\ NonEmptyText(result_df[i].data["Name"])

(***************************************************************************)
(* C2: numeric-clean rounds every parsable value to 2 decimal places       *)
(* half-up: a tie at the third decimal goes away from zero.                *)
(***************************************************************************)
C2_RoundHalfUp ==
    Returned =>
        \A i \in DOMAIN result_df : \A col \in NumericColumns :
            (IsMapped(col) /\ ~isna(to_numeric_cell(SourceCell(result_df[i], col))))
                => result_df[i].data[col] =
                       Float(ROUND_HALF_UP(to_numeric_cell(SourceCell(result_df[i], col)).v))

(***************************************************************************)
(* C3: a mapping item whose index is no zero-based column position (past   *)
(* the last column, or negative) is ignored: transform completes and       *)
(* returns what it returns for the mapping without those items.            *)
(***************************************************************************)
ValidPosition(item) == item.source_col_idx >= 0 /\ item.source_col_idx < df.columns

C3_InvalidIndexIgnored ==
    pc \in {"transformed", "raised", "validated"} =>
        /\ pc # "raised"
        /\ result_df = transform(df, SelectSeq(column_mapping, ValidPosition))

(***************************************************************************)
(* C4: every row returned by transform has Can be Sold and Can be          *)
(* Purchased true, Product Type "Goods", Category "All", a number (never   *)
(* the missing value) in Sale Price, Cost and Quantity On Hand, which is   *)
(* 0.0 when the field was unmapped or its cell was missing, and the empty  *)
(* text in the seven optional text columns.                                *)
(***************************************************************************)
C4_DefaultsOnEveryRow ==
    Returned =>
        \A i \in DOMAIN result_df :
            LET r == result_df[i]
            IN  /\ r.data["Can be Sold"] = TRUE
                /\ r.data["Can be Purchased"] = TRUE
                /\ r.data["Product Type"] = Str(<<"G", "o", "o", "d", "s">>)
                /\ r.data["Category"] = Str(<<"A", "l", "l">>)
                /\ \A col \in NumericColumns :
                      /\ r.data[col].kind = "float"
                      /\ (~IsMapped(col) \/ isna(SourceCell(r, col)))
                            => r.data[col] = Float(0)
                /\ \A col \in OptionalTextColumns : r.data[col] = Str(<<>>)

\* A returned row with one numeric field unmapped and another mapped to a
\* missing cell.
C4_Witness ==
    /\ pc = "transformed"
    /\ \E i \in DOMAIN result_df :
          /\ ~IsMapped("Cost")
          /\ IsMapped("Sale Price")
          /\ isna(SourceCell(result_df[i], "Sale Price"))
          /\ result_df[i].data["Sale Price"] = Float(0)
          /\ result_df[i].data["Cost"] = Float(0)

(***************************************************************************)
(* C5: text-clean maps a cell to its text with the leading and trailing    *)
(* whitespace removed, and maps a missing cell and a cell whose trimmed    *)
(* text is "nan" to the empty text; the text "nan" of the missing value is *)
(* never written to Internal Reference or Name.                            *)
(***************************************************************************)
\* out is text with exactly its leading and trailing whitespace removed.
IsTrimOf(out, text) ==
    \E a \in 0..Len(text) : \E b \in a..Len(text) :
        /\ out = SubSeq(text, a + 1, b)
        /\ \A i \in 1..a : IsSpace(text[i])
        /\ \A i \in (b + 1)..Len(text) : IsSpace(text[i])
        /\ out # <<>> => (~IsSpace(out[1]) /\ ~IsSpace(out[Len(out)]))

TextOf(c) == IF c.kind = "float" THEN FloatStr(c.v) ELSE c.s

C5_TextClean ==
    Returned =>
        \A i \in DOMAIN result_df : \A col \in TextColumns :
            IsMapped(col) =>
                LET src == SourceCell(result_df[i], col)
                    out == result_df[i].data[col]
                IN  /\ out.kind = "str"
                    /\ out.s # nan_text
                    /\ isna(src) => out.s = <<>>
                    /\ (~isna(src) /\ IsTrimOf(nan_text, TextOf(src))) => out.s = <<>>
                    /\ (~isna(src) /\ ~IsTrimOf(nan_text, TextOf(src)))
                          => IsTrimOf(out.s, TextOf(src))

\* One returned table shows a missing cell, a padded "nan" and a padded text.
C5_Witness ==
    /\ pc = "transformed"
    /\ IsMapped("Internal Reference")
    /\ IsMapped("Name")
    /\ \E i \in DOMAIN result_df :
          /\ isna(SourceCell(result_df[i], "Internal Reference"))
          /\ SourceCell(result_df[i], "Name") = Str(<<" ", "n", "a", "n", " ">>)
          /\ result_df[i].data["Internal Reference"] = Str(<<>>)
          /\ result_df[i].data["Name"] = Str(<<>>)
    /\ \E i \in DOMAIN result_df :
          /\ SourceCell(result_df[i], "Internal Reference") = Str(<<" ", "A", "1", " ">>)
          /\ result_df[i].data["Internal Reference"] = Str(<<"A", "1">>)

(***************************************************************************)
(* C6: a cell mapped to list_price, standard_price or qty_available that   *)
(* is no number never aborts transform; it is missing (not 0.0) after      *)
(* numeric-clean, the row is kept or dropped by its Internal Reference and *)
(* Name alone, and a returned row has 0.0 in that field.                   *)
(***************************************************************************)
\* A text is a number when, trimmed and without its sign, it is made of
\* digits and at most one ".", with a digit among them.
IsNumberText(text) ==
    LET t == strip(text)
        body == IF t # <<>> /\ t[1] \in {"-", "+"} THEN Tail(t) ELSE t
    IN  /\ \E i \in DOMAIN body : body[i] \in DigitSet
        /\ \A i \in DOMAIN body : body[i] \in DigitSet \cup {"."}
        /\ Cardinality({i \in DOMAIN body : body[i] = "."}) <= 1

Unparsable(c) == c.kind = "str" /\ ~IsNumberText(c.s)

NumericKeys == {FieldKey(col) : col \in NumericColumns}

IsTextItem(item) == item.odoo_field \notin NumericKeys

Labels(frame) == {frame[i].index : i \in DOMAIN frame}

Rows(frame) == {frame[i] : i \in DOMAIN frame}

C6_UnparsableCell ==
    /\ pc = "raised" =>
          \E i \in DOMAIN column_mapping :
              column_mapping[i].source_col_idx < 0 - df.columns
    /\ Returned =>
          /\ \A r \in Rows(Mapped(df, column_mapping)) : \A col \in NumericColumns :
                (IsMapped(col) /\ Unparsable(SourceCell(r, col))) => isna(r.data[col])
          /\ Labels(result_df)
                = Labels(transform(df, SelectSeq(column_mapping, IsTextItem)))
          /\ \A i \in DOMAIN result_df : \A col \in NumericColumns :
                (IsMapped(col) /\ Unparsable(SourceCell(result_df[i], col)))
                    => result_df[i].data[col] = Float(0)

\* A returned row whose Sale Price was read from the text "x".
C6_Witness ==
    /\ pc = "transformed"
    /\ IsMapped("Sale Price")
    /\ \E i \in DOMAIN result_df :
          /\ SourceCell(result_df[i], "Sale Price") = Str(<<"x">>)
          /\ result_df[i].data["Sale Price"] = Float(0)

(***************************************************************************)
(* C7: valid is true iff errors is empty, and errors is non-empty exactly  *)
(* when some row has a missing Internal Reference or a missing Name;       *)
(* duplicate, missing-number and negative-number findings are warnings and *)
(* change neither errors nor valid.                                        *)
(***************************************************************************)
MissingRequired(frame) ==
    \E i \in DOMAIN frame :
        isna(frame[i].data["Internal Reference"]) \/ isna(frame[i].data["Name"])

C7_ValidIffNoErrors ==
    Validated =>
        /\ validation.valid <=> (validation.errors = <<>>)
        /\ (validation.errors # <<>>) <=> MissingRequired(target_df)
        /\ \A i \in DOMAIN validation.errors :
              validation.errors[i] \in
                  {"Some products are missing Internal Reference",
                   "Some products are missing Name"}
        /\ \A i \in DOMAIN validation.warnings :
              validation.warnings[i].message \in {"duplicate", "empty", "negative"}

\* A valid table with a negative Quantity On Hand, a missing number and a
\* duplicated reference.
C7_Witness ==
    /\ pc = "checked"
    /\ validation.valid
    /\ \E i \in DOMAIN target_df : target_df[i].data["Quantity On Hand"] = Float(-5000)
    /\ \E i, j, k \in DOMAIN validation.warnings :
          /\ validation.warnings[i].message = "duplicate"
          /\ validation.warnings[j] = Warning("negative", "Quantity On Hand", <<>>)
          /\ validation.warnings[k].message = "empty"

(***************************************************************************)
(* C8: validate emits exactly one duplicate warning when some Internal     *)
(* Reference value occurs in more than one row, and none otherwise; the    *)
(* warning lists, in row order, the values of the second and later         *)
(* occurrences only.  As in Series.duplicated, the missing value counts as *)
(* a value that equals itself.                                             *)
(***************************************************************************)
References(frame) == [i \in DOMAIN frame |-> frame[i].data["Internal Reference"]]

\* The rows whose reference already occurred in an earlier row.
LaterOccurrences(frame) ==
    {i \in DOMAIN frame : \E j \in DOMAIN frame : j < i /\ References(frame)[j] = References(frame)[i]}

\* The k-th smallest element of a set of row positions.
Kth(S, k) == CHOOSE i \in S : Cardinality({j \in S : j < i}) = k - 1

DuplicateWarnings ==
    {i \in DOMAIN validation.warnings : validation.warnings[i].message = "duplicate"}

C8_OneDuplicateWarning ==
    Validated =>
        LET later == LaterOccurrences(target_df)
        IN  /\ later = {} => DuplicateWarnings = {}
            /\ later # {} =>
                  /\ Cardinality(DuplicateWarnings) = 1
                  /\ \A w \in DuplicateWarnings :
                        LET refs == validation.warnings[w].refs
                        IN  /\ Len(refs) = Cardinality(later)
                            /\ \A k \in DOMAIN refs :
                                  refs[k] = References(target_df)[Kth(later, k)]

\* Two distinct values are duplicated in one table of four rows.
C8_Witness ==
    /\ pc = "checked"
    /\ \E w \in DuplicateWarnings :
          /\ Len(validation.warnings[w].refs) = 2
          /\ validation.warnings[w].refs[1] # validation.warnings[w].refs[2]
          /\ Len(target_df) = 4

(***************************************************************************)
(* C9: the rows transform returns are the source rows that survive the     *)
(* required-field filter, each once and in source order; the output has at *)
(* most as many rows as the source, and a returned row carries, for every  *)
(* mapped field, the cleaned value of its own source row.                  *)
(***************************************************************************)
Filled(c, x) == IF isna(c) THEN x ELSE c

C9_RowsInSourceOrder ==
    Returned =>
        /\ Len(result_df) <= Len(df.rows)
        /\ \A i \in DOMAIN result_df : result_df[i].index \in 0..(Len(df.rows) - 1)
        /\ \A i, j \in DOMAIN result_df : i < j => result_df[i].index < result_df[j].index
        /\ Labels(result_df) = Labels(SelectSeq(Mapped(df, column_mapping), KeepRow))
        /\ \A i \in DOMAIN result_df :
              /\ \A col \in TextColumns :
                    IsMapped(col) =>
                        result_df[i].data[col] = clean_text_cell(SourceCell(result_df[i], col))
              /\ \A col \in NumericColumns :
                    IsMapped(col) =>
                        result_df[i].data[col] =
                            Filled(round_cell(to_numeric_cell(SourceCell(result_df[i], col))),
                                   Float(0))

\* Two different source rows are returned, in their source order.
C9_Witness ==
    /\ pc = "transformed"
    /\ Len(result_df) = 2
    /\ df.rows[1] # df.rows[2]
    /\ result_df[1].data["Internal Reference"] = Str(<<"0", ".", "3", "7", "5">>)
    /\ result_df[2].data["Internal Reference"] = Str(<<"A", "1">>)
    /\ result_df[1].data["Sale Price"] = Float(0)
    /\ result_df[2].data["Sale Price"] = Float(20000)

(***************************************************************************)
(* C10: the validation of a table returned by transform reports no error   *)
(* and valid = true; it can only add warnings.                             *)
(***************************************************************************)
C10_TransformOutputIsValid ==
    pc = "validated" =>
        /\ target_df = result_df
        /\ validation.errors = <<>>
        /\ validation.valid

\* A returned, non-empty table is validated and draws a warning.
C10_Witness ==
    /\ pc = "validated"
    /\ Len(result_df) = 2
    /\ validation.valid
    /\ validation.warnings # <<>>

====
